---- MODULE Spec2Model ----
(***************************************************************************)
(* Model of SpriteForge's pixel-analysis engine                            *)
(* (src/spriteforge/image_processor.py, class ImageProcessor).             *)
(*                                                                         *)
(* An image is a record [mode, size, px]: mode is "RGB" or "RGBA", size is *)
(* <<width, height>> and px maps every position <<i, j>> (column, row) to  *)
(* its channel tuple.  The Pillow primitives the code calls (crop,         *)
(* convert, ImageDraw.rectangle, ImageChops.difference, point, invert,     *)
(* paste) are modelled by what Pillow >= 10 (setup.py) does.               *)
(*                                                                         *)
(* Four specifications share the variables: Spec calls the operations of   *)
(* the processor on every small image, SpecDiff folds diff_image over      *)
(* every small list of crops, SpecProgress calls the operations with a     *)
(* progress callback, directly and through the overlay handlers of the     *)
(* main window (src/spriteforge/app.py), on frames that lie in a directory *)
(* of *.png files, and SpecCanvas runs the handlers of the window and its  *)
(* canvas that create, move, resize, clear, undo and redo the selection.   *)
(***************************************************************************)
EXTENDS Integers, Sequences, FiniteSets, TLC

VARIABLES image, image_path, op, handler, selection, callback, png_files,
          trace, result, sections, window

vars == <<image, image_path, op, handler, selection, callback, png_files,
          trace, result, sections, window>>

(***************************************************************************)
(* Bounds of the model.                                                    *)
(***************************************************************************)
\* Loaded images are at most MaxSide wide and high and have at most
\* MaxPixels pixels.
MaxSide == 3
MaxPixels == 4
\* The sequence fold gets at most MaxN crops, each at most CropW wide, of at
\* most MaxCells pixels in total.
MaxN == 3
CropW == 2
MaxCells == 6
\* The directory of the loaded image holds at most MaxFiles *.png files.
MaxFiles == 3
\* The height of the tall image, whose crops have more than ten rows.
TallRows == 11

\* RGB values the loaded images are painted with.
Palette == {<<0, 0, 0>>, <<255, 0, 0>>, <<0, 0, 255>>}

\* RGB values the crops handed to the sequence fold are painted with.
DiffPalette == {<<0, 0, 0>>, <<1, 0, 0>>, <<0, 1, 0>>, <<255, 0, 0>>}

(***************************************************************************)
(* Images.                                                                 *)
(***************************************************************************)
Pos(w, h) == (0 .. (w - 1)) \X (0 .. (h - 1))

\* self.image = None: the path did not exist when the processor was built.
NoImage == [mode |-> "None", size |-> <<0, 0>>, px |-> <<>>]

MkImage(m, w, h, f) == [mode |-> m, size |-> <<w, h>>, px |-> f]

Width(img) == img.size[1]
Height(img) == img.size[2]

\* The alpha channel of the 4-channel images: not 255 everywhere.
AlphaPattern(p) == IF (p[1] + p[2]) % 2 = 0 THEN 0 ELSE 128

ImageSizes ==
  { d \in (1 .. MaxSide) \X (1 .. MaxSide) : d[1] * d[2] <= MaxPixels }

RGBImages ==
  UNION { { MkImage("RGB", d[1], d[2], f) : f \in [Pos(d[1], d[2]) -> Palette] } :
          d \in ImageSizes }

RGBAImages ==
  { MkImage("RGBA", Width(i), Height(i),
            [p \in Pos(Width(i), Height(i)) |-> Append(i.px[p], AlphaPattern(p))]) :
    i \in RGBImages }

Images == RGBImages \cup RGBAImages

\* Region invariant of the data model: inside the image, positive size.
ValidRegion(img, sel) ==
  /\ sel[1] >= 0
  /\ sel[2] >= 0
  /\ sel[3] > 0
  /\ sel[4] > 0
  /\ sel[1] + sel[3] <= Width(img)
  /\ sel[2] + sel[4] <= Height(img)

InRegion(p, sel) ==
  /\ sel[1] <= p[1]
  /\ p[1] < sel[1] + sel[3]
  /\ sel[2] <= p[2]
  /\ p[2] < sel[2] + sel[4]

\* The selections the operations are called with on an image: valid ones,
\* ones that stick out of the image, empty and negative sizes.
Selections(img) ==
  ((-1) .. (Width(img) - 1)) \X ((-1) .. (Height(img) - 1))
    \X ((-1) .. Width(img)) \X ((-1) .. Height(img))

PositiveSelections(img) == { s \in Selections(img) : s[3] >= 1 /\ s[4] >= 1 }

(***************************************************************************)
(* Outcomes of an operation.                                               *)
(***************************************************************************)
Returned(img) == [ret |-> "image", img |-> img, colors |-> <<>>]
ReturnedNone == [ret |-> "None", img |-> NoImage, colors |-> <<>>]
ReturnedList(cs) == [ret |-> "list", img |-> NoImage, colors |-> cs]
Raised == [ret |-> "raise", img |-> NoImage, colors |-> <<>>]

(***************************************************************************)
(* Pillow primitives.                                                      *)
(***************************************************************************)
Zeros(m) == IF m = "RGBA" THEN <<0, 0, 0, 0>> ELSE <<0, 0, 0>>

InBounds(img, p) ==
  /\ 0 <= p[1]
  /\ p[1] < Width(img)
  /\ 0 <= p[2]
  /\ p[2] < Height(img)

\* Image.crop(box) with box = <<left, upper, right, lower>>: the result is
\* (right - left) x (lower - upper); positions outside the source are zero.
CropRaises(box) == box[3] < box[1] \/ box[4] < box[2]

Crop(img, box) ==
  MkImage(img.mode, box[3] - box[1], box[4] - box[2],
          [p \in Pos(box[3] - box[1], box[4] - box[2]) |->
             IF InBounds(img, <<box[1] + p[1], box[2] + p[2]>>)
               THEN img.px[<<box[1] + p[1], box[2] + p[2]>>]
               ELSE Zeros(img.mode)])

RGBOf(pixel) == <<pixel[1], pixel[2], pixel[3]>>

\* Image.convert("RGB"): the alpha channel, if any, is dropped.
ConvertRGB(img) ==
  MkImage("RGB", Width(img), Height(img),
          [p \in DOMAIN img.px |-> RGBOf(img.px[p])])

\* ImageDraw.rectangle(<<x0, y0, x1, y1>>, fill): both end points are part
\* of the rectangle.
DrawRectangle(img, box, fill) ==
  MkImage(img.mode, Width(img), Height(img),
          [p \in DOMAIN img.px |->
             IF /\ box[1] <= p[1]
                /\ p[1] <= box[3]
                /\ box[2] <= p[2]
                /\ p[2] <= box[4]
               THEN fill
               ELSE img.px[p]])

\* Image.convert("RGBA") of a 3-channel image adds alpha 255; this is how
\* the canvas displays a result that is not RGBA already.
AlphaAt(img, p) == IF img.mode = "RGBA" THEN img.px[p][4] ELSE 255

(***************************************************************************)
(* numpy / list primitives.                                                *)
(***************************************************************************)
\* Python's order on lists of three integers.
LexLess(a, b) ==
  \/ a[1] < b[1]
  \/ a[1] = b[1] /\ a[2] < b[2]
  \/ a[1] = b[1] /\ a[2] = b[2] /\ a[3] < b[3]

RECURSIVE AscendingRows(_)
AscendingRows(S) ==
  IF S = {} THEN <<>>
  ELSE LET m == CHOOSE c \in S : \A d \in S : d = c \/ LexLess(c, d)
       IN <<m>> \o AscendingRows(S \ {m})

\* np.unique(np.asarray(img.getdata()), axis=0).tolist(): the distinct
\* pixel rows of the image, ascending.
NpUnique(img) == AscendingRows({ img.px[p] : p \in DOMAIN img.px })

InList(c, s) == \E k \in 1 .. Len(s) : s[k] = c

RECURSIVE InsertDescending(_, _)
InsertDescending(s, c) ==
  IF s = <<>> THEN <<c>>
  ELSE IF LexLess(Head(s), c) THEN <<c>> \o s
  ELSE <<Head(s)>> \o InsertDescending(Tail(s), c)

\* A mutant of SortReverse: the list keeps the ascending order of np.unique.
SortForgotten(s) == s

\* list.sort(reverse=True)
RECURSIVE SortReverse(_)
SortReverse(s) ==
  IF s = <<>> THEN <<>>
  ELSE InsertDescending(SortReverse(Tail(s)), Head(s))

(***************************************************************************)
(* ImageProcessor.                                                         *)
(***************************************************************************)
\* CropBox with the size handed on as if it were the lower right corner.
CropBoxSizeAsCorner(sel) == <<sel[1], sel[2], sel[3], sel[4]>>

CropBox(sel) == <<sel[1], sel[2], sel[1] + sel[3], sel[2] + sel[4]>>

get_selection_image(img, sel) ==
  IF img.mode = "None" THEN ReturnedNone
  ELSE IF CropRaises(CropBox(sel)) THEN Raised
  ELSE Returned(Crop(img, CropBox(sel)))

\* A mutant of BlankedCopy: the selection is not blanked in the copy.
BlankedCopyUnblanked(img, sel) == ConvertRGB(img)

\* The copy of the image in which the selection is painted over with
\* fill=0 before it is scanned for the colors of the rest of the image.
BlankedCopy(img, sel) ==
  DrawRectangle(ConvertRGB(img), CropBox(sel), <<0, 0, 0>>)

\* The colors of the sprite that are not among the colors of the rest.
OnlyInSprite(sprite_pixels, rest_pixels) ==
  SelectSeq(sprite_pixels, LAMBDA item : ~InList(item, rest_pixels))

find_unique_colors(img, sel) ==
  IF img.mode = "None" THEN ReturnedList(<<>>)
  ELSE IF get_selection_image(img, sel).ret = "raise" THEN Raised
  ELSE LET sprite == ConvertRGB(get_selection_image(img, sel).img)
           rest_pixels == NpUnique(BlankedCopy(img, sel))
           sprite_pixels == NpUnique(sprite)
       IN ReturnedList(SortReverse(OnlyInSprite(sprite_pixels, rest_pixels)))

\* UniquePixel looking the whole pixel up, alpha included.
UniquePixelWithAlpha(pixel, unique_colors) ==
  IF Len(pixel) = 3 /\ InList(pixel, unique_colors)
    THEN <<pixel[1], pixel[2], pixel[3], 255>>
    ELSE <<0, 0, 0, 0>>

\* One pixel of the unique sprite: opaque if its RGB is a unique color.
UniquePixel(pixel, unique_colors) ==
  IF InList(RGBOf(pixel), unique_colors)
    THEN <<pixel[1], pixel[2], pixel[3], 255>>
    ELSE <<0, 0, 0, 0>>

\* create_unique_sprite without the early return for an empty color list.
create_unique_sprite_no_early_return(img, sel) ==
  IF img.mode = "None" THEN ReturnedNone
  ELSE IF get_selection_image(img, sel).ret = "raise" THEN Raised
  ELSE LET sprite_array == get_selection_image(img, sel).img
           unique_colors == find_unique_colors(img, sel).colors
       IN Returned(MkImage("RGBA", Width(sprite_array), Height(sprite_array),
            [p \in DOMAIN sprite_array.px |->
               UniquePixel(sprite_array.px[p], unique_colors)]))

create_unique_sprite(img, sel) ==
  IF img.mode = "None" THEN ReturnedNone
  ELSE IF get_selection_image(img, sel).ret = "raise" THEN Raised
  ELSE LET sprite_array == get_selection_image(img, sel).img
           unique_colors == find_unique_colors(img, sel).colors
       IN IF unique_colors = <<>> THEN ReturnedNone
          ELSE Returned(MkImage("RGBA", Width(sprite_array), Height(sprite_array),
                 [p \in DOMAIN sprite_array.px |->
                    UniquePixel(sprite_array.px[p], unique_colors)]))

(***************************************************************************)
(* The sequence difference of extract_transparent_sprite.                  *)
(***************************************************************************)
Abs(n) == IF n < 0 THEN 0 - n ELSE n

\* ImageChops.difference: channel-wise absolute difference.
Difference(a, b) ==
  [p \in DOMAIN a.px |->
     <<Abs(a.px[p][1] - b.px[p][1]),
       Abs(a.px[p][2] - b.px[p][2]),
       Abs(a.px[p][3] - b.px[p][3])>>]

\* Image.convert("L") of one RGB pixel (ITU-R 601-2 luma, 16 bit fixed
\* point, rounded).
ConvertL(c) == (c[1] * 19595 + c[2] * 38470 + c[3] * 7471 + 32768) \div 65536

\* point_table = [0] + [255] * 255
point_table(v) == IF v = 0 THEN 0 ELSE 255

\* Invert that leaves the mask as it is.
InvertForgotten(v) == v

\* ImageChops.invert
Invert(v) == 255 - v

\* The mask diff_image pastes through: 255 where it finds a and b equal.
DiffMask(a, b) ==
  [p \in DOMAIN a.px |-> Invert(point_table(ConvertL(Difference(a, b)[p])))]

\* new = diff.convert('RGB'); new.paste(b, mask=diff)
diff_image(a, b) ==
  MkImage("RGB", Width(a), Height(a),
          [p \in DOMAIN a.px |->
             IF DiffMask(a, b)[p] = 255
               THEN b.px[p]
               ELSE <<DiffMask(a, b)[p], DiffMask(a, b)[p], DiffMask(a, b)[p]>>])

\* result = sections.pop(0); for section in sections: result =
\* diff_image(result, section)
RECURSIVE FoldFrom(_, _)
FoldFrom(res, rest) ==
  IF rest = <<>> THEN res
  ELSE FoldFrom(diff_image(res, Head(rest)), Tail(rest))

\* extract_transparent_sprite from the point where the crops are collected.
SequenceDiff(secs) ==
  IF secs = <<>> THEN ReturnedNone
  ELSE Returned(FoldFrom(Head(secs), Tail(secs)))

(***************************************************************************)
(* Progress callbacks.  An operation's run is the list of its events in    *)
(* program order: a report is one `if progress_callback:                   *)
(* progress_callback(n)` statement, every other event is a step of work.   *)
(***************************************************************************)
\* progress_callback=None.
NoCallback == [given |-> FALSE, cancel_at |-> 0]

\* A callback that raises InterruptedError at its k-th invocation; k = 0 is
\* a callback that never raises.
Reporter(k) == [given |-> TRUE, cancel_at |-> k]

Report(n) == [kind |-> "report", val |-> n]
Work(label) == [kind |-> label, val |-> 0]

IsReport(e) == e.kind = "report"

\* The places of the reports in the list of events.
ReportIndexes(events) == { k \in 1 .. Len(events) : IsReport(events[k]) }

NumReports(events) == Cardinality(ReportIndexes(events))

\* The callbacks that behave differently on a run with these events.
Callbacks(events) ==
  {NoCallback} \cup { Reporter(k) : k \in 0 .. NumReports(events) }

IsWork(e) == ~IsReport(e)

\* The place of the k-th report.
ReportIndex(events, k) ==
  CHOOSE i \in ReportIndexes(events) :
    Cardinality({ j \in ReportIndexes(events) : j <= i }) = k

\* A mutant of Executed: the callback's exception is swallowed and the run
\* goes on.
ExecutedSwallowingCancel(events, cb) ==
  IF ~cb.given THEN SelectSeq(events, IsWork) ELSE events

\* The events that happen when the run is made with callback cb: without a
\* callback no report is made, and the exception of the callback ends the
\* run at that report, no operation catching it.
Executed(events, cb) ==
  IF ~cb.given THEN SelectSeq(events, IsWork)
  ELSE IF cb.cancel_at \in 1 .. NumReports(events)
    THEN SubSeq(events, 1, ReportIndex(events, cb.cancel_at))
    ELSE events

WasCancelled(events, cb) ==
  cb.given /\ cb.cancel_at \in 1 .. NumReports(events)

\* InterruptedError leaves the operation.
Cancelled == [ret |-> "cancelled", img |-> NoImage, colors |-> <<>>]

Outcome(events, cb, outcome) ==
  IF WasCancelled(events, cb) THEN Cancelled ELSE outcome

\* find_unique_colors with a callback.
find_events(img, sel) ==
  IF img.mode = "None" THEN <<>>
  ELSE IF CropRaises(CropBox(sel)) THEN <<Report(5), Work("crop")>>
  ELSE <<Report(5), Work("crop"), Report(10), Work("blank"), Report(30),
         Work("rest_pixels"), Report(50), Work("sprite_pixels"), Report(70),
         Work("filter"), Report(90)>>
       \o (IF find_unique_colors(img, sel).colors # <<>> THEN <<Work("sort")>> ELSE <<>>)
       \o <<Report(100)>>

\* The loop over the rows of the crop in create_unique_sprite.
RECURSIVE RowEvents(_, _)
RowEvents(total_rows, idx) ==
  IF idx >= total_rows THEN <<>>
  ELSE <<Work("row")>>
       \o (IF idx % 10 = 0 THEN <<Report(20 + ((idx * 70) \div total_rows))>> ELSE <<>>)
       \o RowEvents(total_rows, idx + 1)

\* create_unique_sprite with a callback; the inner find_unique_colors call
\* gets no callback.
create_events(img, sel) ==
  IF get_selection_image(img, sel).ret = "raise" THEN <<Report(10), Work("crop")>>
  ELSE <<Report(10), Work("crop"), Report(20), Work("find_unique_colors")>>
       \o (IF create_unique_sprite(img, sel).ret = "None"
             THEN <<Report(100)>>
             ELSE RowEvents(Height(get_selection_image(img, sel).img), 0)
                  \o <<Work("fromarray"), Report(100)>>)

(***************************************************************************)
(* The directory of the loaded image and the whole                         *)
(* extract_transparent_sprite.                                             *)
(***************************************************************************)
\* A *.png file PILImage.open raises on.
Unreadable == [readable |-> FALSE, img |-> NoImage]

Frame(img) == [readable |-> TRUE, img |-> img]

NextColor(c) ==
  IF c = <<0, 0, 0>> THEN <<255, 0, 0>>
  ELSE IF c = <<255, 0, 0>> THEN <<0, 0, 255>>
  ELSE <<0, 0, 0>>

\* Another frame of the animation: every pixel has another color.
Recolored(img) ==
  [img EXCEPT !.px =
     [p \in DOMAIN img.px |->
        LET c == NextColor(RGBOf(img.px[p]))
        IN IF img.mode = "RGBA" THEN <<c[1], c[2], c[3], img.px[p][4]>> ELSE c]]

\* A PNG of another size than the loaded image.
SmallFrame == MkImage("RGB", 1, 1, [p \in Pos(1, 1) |-> <<0, 0, 0>>])

\* What the k-th file of the directory holds when it is readable: the
\* loaded frame, a recolored frame, a file of another size, ...
FileContent(img, k) ==
  IF img.mode = "None" \/ k % 3 = 0 THEN SmallFrame
  ELSE IF k % 3 = 1 THEN img
  ELSE Recolored(img)

Directories(img) ==
  UNION { { [k \in 1 .. n |-> IF r[k] THEN Frame(FileContent(img, k)) ELSE Unreadable] :
            r \in [1 .. n -> BOOLEAN] } :
          n \in 0 .. MaxFiles }

\* The loop that fills `sections`: the opened file goes to the local
\* variable `image`, the crop is taken by self.get_selection_image, and any
\* exception of the two skips the file.
RECURSIVE CollectFrom(_, _, _, _)
CollectFrom(img, sel, files, idx) ==
  IF idx >= Len(files) THEN <<>>
  ELSE LET section == get_selection_image(img, sel)
       IN IF files[idx + 1].readable /\ section.ret = "image"
            THEN <<ConvertRGB(section.img)>> \o CollectFrom(img, sel, files, idx + 1)
            ELSE CollectFrom(img, sel, files, idx + 1)

CollectSections(img, sel, files) == CollectFrom(img, sel, files, 0)

extract_transparent_sprite(img, sel, files) ==
  IF Len(files) < 2 THEN ReturnedNone
  ELSE SequenceDiff(CollectSections(img, sel, files))

\* A mutant of LoadEvents: the progress of the loading loop is not scaled
\* by the number of files.
RECURSIVE LoadEventsUnscaled(_, _)
LoadEventsUnscaled(files, idx) ==
  IF idx >= Len(files) THEN <<>>
  ELSE <<Work("open")>>
       \o (IF files[idx + 1].readable THEN <<Work("crop")>> ELSE <<>>)
       \o <<Report(1 + (idx * 40))>>
       \o LoadEventsUnscaled(files, idx + 1)

RECURSIVE LoadEvents(_, _)
LoadEvents(files, idx) ==
  IF idx >= Len(files) THEN <<>>
  ELSE <<Work("open")>>
       \o (IF files[idx + 1].readable THEN <<Work("crop")>> ELSE <<>>)
       \o <<Report(1 + ((idx * 40) \div Len(files)))>>
       \o LoadEvents(files, idx + 1)

\* A mutant of FoldEvents: the fold counts its progress from 0 again.
RECURSIVE FoldEventsFromZero(_, _)
FoldEventsFromZero(n, idx) ==
  IF idx >= n THEN <<>>
  ELSE <<Work("diff_image"), Report((idx * 59) \div n)>>
       \o FoldEventsFromZero(n, idx + 1)

\* The fold over the n sections left after sections.pop(0).
RECURSIVE FoldEvents(_, _)
FoldEvents(n, idx) ==
  IF idx >= n THEN <<>>
  ELSE <<Work("diff_image"), Report(41 + ((idx * 59) \div n))>>
       \o FoldEvents(n, idx + 1)

extract_events(img, sel, files) ==
  <<Report(1), Work("glob")>>
  \o (IF Len(files) < 2 THEN <<>>
      ELSE LoadEvents(files, 0)
           \o (LET n == Len(CollectSections(img, sel, files))
               IN IF n = 0 THEN <<>>
                  ELSE FoldEvents(n - 1, 0) \o <<Report(100)>>))

(***************************************************************************)
(* The processor as a state machine.  The operations are synchronous: the  *)
(* caller is idle, calls one operation with a selection, and takes the     *)
(* outcome before it calls the next.                                       *)
(***************************************************************************)
NoSelection == <<0, 0, 0, 0>>

\* The fields of the main window the handlers read and write, after the
\* selection sel was made on the canvas (NoSelection: none was made yet).
\* canvas and undo_manager are the window's ImageCanvas and UndoRedoManager.
InitWindow(sel) ==
  [selection |-> sel,
   canvas |-> [current_selection |-> IF sel = NoSelection THEN <<>> ELSE sel,
               is_applying_history |-> FALSE],
   undo_manager |-> [undo_stack |-> IF sel = NoSelection THEN <<>> ELSE <<sel>>,
                     redo_stack |-> <<>>],
   undo_btn |-> sel # NoSelection,
   redo_btn |-> FALSE,
   overlay_unique_colors_btn |-> FALSE,
   overlay_transparent_sprite_btn |-> FALSE,
   unique_colors_overlay_active |-> FALSE,
   unique_colors_overlay_image |-> NoImage,
   transparent_sprite_overlay_active |-> FALSE,
   transparent_sprite_overlay_image |-> NoImage,
   overlay_item |-> NoImage]

\* A mutant of LoadedImageAfter: find_unique_colors draws the blanking
\* rectangle on self.image instead of on a copy.
LoadedImageBlanked(name, img, sel, files) ==
  IF name = "find_unique_colors" /\ img.mode = "RGB" /\ ~CropRaises(CropBox(sel))
    THEN BlankedCopy(img, sel)
    ELSE img

\* self.image after the operation `name`: get_selection_image crops into a
\* new image, find_unique_colors draws on self.image.copy().convert("RGB"),
\* create_unique_sprite builds its result from lists, and
\* extract_transparent_sprite opens the files into a local variable.
LoadedImageAfter(name, img, sel, files) == img

\* One call of the operation `name`, its events and its outcome when it is
\* not cancelled; secs are the crops it has collected.
Call(name, sel, cb, files, events, outcome, secs) ==
  /\ op = "idle"
  /\ op' = name
  /\ selection' = sel
  /\ callback' = cb
  /\ png_files' = files
  /\ trace' = Executed(events, cb)
  /\ result' = Outcome(events, cb, outcome)
  /\ sections' = IF WasCancelled(events, cb) THEN <<>> ELSE secs
  /\ image' = LoadedImageAfter(name, image, sel, files)
  /\ UNCHANGED image_path

\* The image of the documented scenario: red everywhere except a blue block
\* of 2 x 2 pixels at (1, 1).
ScenarioImage ==
  MkImage("RGB", 4, 4,
          [p \in Pos(4, 4) |->
             IF p[1] \in {1, 2} /\ p[2] \in {1, 2} THEN <<0, 0, 255>> ELSE <<255, 0, 0>>])

Init ==
  /\ image \in Images \cup {NoImage, ScenarioImage}
  /\ image_path = "frames/frame1.png"
  /\ op = "idle"
  /\ handler = "none"
  /\ selection = NoSelection
  /\ callback = NoCallback
  /\ png_files = <<>>
  /\ trace = <<>>
  /\ result = ReturnedNone
  /\ sections = <<>>
  /\ window = InitWindow(NoSelection)

get_selection_events(img, sel) ==
  IF img.mode = "None" THEN <<>> ELSE <<Work("crop")>>

GetSelectionImage ==
  /\ op = "idle"
  /\ \E sel \in Selections(image) :
       /\ Call("get_selection_image", sel, NoCallback, <<>>,
               get_selection_events(image, sel), get_selection_image(image, sel), <<>>)
       /\ handler' = "none"
       /\ UNCHANGED window

FindUniqueColors ==
  /\ op = "idle"
  /\ \E sel \in PositiveSelections(image) :
       /\ Call("find_unique_colors", sel, NoCallback, <<>>,
               find_events(image, sel), find_unique_colors(image, sel), <<>>)
       /\ handler' = "none"
       /\ UNCHANGED window

CreateUniqueSprite ==
  /\ op = "idle"
  /\ \E sel \in PositiveSelections(image) :
       /\ Call("create_unique_sprite", sel, NoCallback, <<>>,
               create_events(image, sel), create_unique_sprite(image, sel), <<>>)
       /\ handler' = "none"
       /\ UNCHANGED window

\* The caller has taken the outcome of the call.
Return ==
  /\ op # "idle"
  /\ op' = "idle"
  /\ handler' = "none"
  /\ selection' = NoSelection
  /\ callback' = NoCallback
  /\ png_files' = <<>>
  /\ trace' = <<>>
  /\ result' = ReturnedNone
  /\ sections' = <<>>
  /\ UNCHANGED <<image, image_path, window>>

Next ==
  \/ GetSelectionImage
  \/ FindUniqueColors
  \/ CreateUniqueSprite
  \/ Return

Spec == Init /\ [][Next]_vars

(***************************************************************************)
(* The sequence difference applied to any list of equally sized crops.     *)
(***************************************************************************)
CropImages(w) ==
  { MkImage("RGB", w, 1, f) : f \in [Pos(w, 1) -> DiffPalette] }

SectionShapes ==
  { d \in (0 .. MaxN) \X (1 .. CropW) : d[1] * d[2] <= MaxCells }

SectionLists ==
  UNION { [1 .. d[1] -> CropImages(d[2])] : d \in SectionShapes }

InitDiff ==
  /\ image = NoImage
  /\ image_path = "frames/frame1.png"
  /\ op = "idle"
  /\ handler = "none"
  /\ selection = NoSelection
  /\ callback = NoCallback
  /\ png_files = <<>>
  /\ trace = <<>>
  /\ result = ReturnedNone
  /\ sections = <<>>
  /\ window = InitWindow(NoSelection)

\* The fold of extract_transparent_sprite over the crops it has collected.
FoldSections ==
  /\ op = "idle"
  /\ \E secs \in SectionLists :
       /\ op' = "extract_transparent_sprite"
       /\ result' = SequenceDiff(secs)
       /\ sections' = secs
       /\ UNCHANGED <<image, image_path, handler, selection, callback, png_files,
                      trace, window>>

NextDiff ==
  \/ FoldSections
  \/ Return

SpecDiff == InitDiff /\ [][NextDiff]_vars

(***************************************************************************)
(* The operations called with a progress callback, directly and by the     *)
(* handlers of the main window, on a frame that lies in a directory of     *)
(* *.png files.                                                            *)
(***************************************************************************)
\* A frame with more than ten rows: red in its first row, black below.
TallImage ==
  MkImage("RGB", 1, TallRows,
          [p \in Pos(1, TallRows) |-> IF p[2] = 0 THEN <<255, 0, 0>> ELSE <<0, 0, 0>>])

ProgressImages ==
  { MkImage("RGB", 2, 1, f) : f \in [Pos(2, 1) -> Palette] }
    \cup { MkImage("RGBA", 2, 1, [p \in Pos(2, 1) |-> <<255, 0, 0, AlphaPattern(p)>>]) }
    \cup { TallImage, NoImage }

\* Regions at the origin of the image, all of them valid.
OriginSelections(img) ==
  { <<0, 0, w, h>> : w \in 1 .. Width(img), h \in {1, Height(img)} \ {0} }

CallSelections(img) == OriginSelections(img) \cup {<<0, 0, 1, 1>>}

InitProgress ==
  /\ image \in ProgressImages
  /\ image_path = "frames/frame1.png"
  /\ op = "idle"
  /\ handler = "none"
  /\ selection = NoSelection
  /\ callback = NoCallback
  /\ png_files = <<>>
  /\ trace = <<>>
  /\ result = ReturnedNone
  /\ sections = <<>>
  /\ \E sel \in OriginSelections(image) \cup {NoSelection} : window = InitWindow(sel)

\* get_selection_image on a frame of the directory.
GetSelectionImageOfFrame ==
  /\ op = "idle"
  /\ \E sel \in CallSelections(image) \cup {<<0, 0, -1, 1>>} :
       /\ Call("get_selection_image", sel, NoCallback, <<>>,
               get_selection_events(image, sel), get_selection_image(image, sel), <<>>)
       /\ handler' = "none"
       /\ UNCHANGED window

FindUniqueColorsReporting ==
  /\ op = "idle"
  /\ \E sel \in CallSelections(image) :
       \E cb \in Callbacks(find_events(image, sel)) :
         /\ Call("find_unique_colors", sel, cb, <<>>,
                 find_events(image, sel), find_unique_colors(image, sel), <<>>)
         /\ handler' = "none"
         /\ UNCHANGED window

CreateUniqueSpriteReporting ==
  /\ op = "idle"
  /\ \E sel \in CallSelections(image) :
       \E cb \in Callbacks(create_events(image, sel)) :
         /\ Call("create_unique_sprite", sel, cb, <<>>,
                 create_events(image, sel), create_unique_sprite(image, sel), <<>>)
         /\ handler' = "none"
         /\ UNCHANGED window

\* The crops extract_transparent_sprite holds when it returns.
SectionsOf(img, sel, files) ==
  IF Len(files) < 2 THEN <<>> ELSE CollectSections(img, sel, files)

ExtractTransparentSprite ==
  /\ op = "idle"
  /\ \E sel \in CallSelections(image) :
       \E files \in Directories(image) :
         \E cb \in Callbacks(extract_events(image, sel, files)) :
           /\ Call("extract_transparent_sprite", sel, cb, files,
                   extract_events(image, sel, files),
                   extract_transparent_sprite(image, sel, files),
                   SectionsOf(image, sel, files))
           /\ handler' = "none"
           /\ UNCHANGED window

\* A handler that returns before it calls the processor.
NoCall(name, files) ==
  /\ op = "idle"
  /\ op' = "no_call"
  /\ handler' = name
  /\ selection' = window.selection
  /\ callback' = NoCallback
  /\ png_files' = files
  /\ trace' = <<>>
  /\ result' = ReturnedNone
  /\ sections' = <<>>
  /\ UNCHANGED <<image, image_path>>

\* update_progress of the handlers: a callback is always given.
HandlerCallbacks(events) == Callbacks(events) \ {NoCallback}

\* ImageCanvas.set_overlay: the pixmap shown over the selection.
set_overlay(overlay_image) ==
  IF overlay_image.mode = "RGBA" THEN overlay_image
  ELSE [mode |-> "RGBA", size |-> overlay_image.size,
        px |-> [p \in DOMAIN overlay_image.px |->
                  <<overlay_image.px[p][1], overlay_image.px[p][2],
                    overlay_image.px[p][3], 255>>]]

\* SpriteForgeWindow.toggle_unique_colors_overlay, from the click to its
\* return; the click has toggled the button before the handler runs.
ToggleUniqueColorsOverlay ==
  /\ op = "idle"
  /\ LET checked == ~window.overlay_unique_colors_btn
         events == create_events(image, window.selection)
         unique_sprite(cb) == Outcome(events, cb, create_unique_sprite(image, window.selection))
     IN IF checked
          THEN IF window.selection = NoSelection
                 THEN /\ NoCall("toggle_unique_colors_overlay", <<>>)
                      /\ window' = [window EXCEPT !.overlay_unique_colors_btn = FALSE]
                 ELSE \E cb \in HandlerCallbacks(events) :
                        /\ Call("create_unique_sprite", window.selection, cb, <<>>,
                                events, create_unique_sprite(image, window.selection), <<>>)
                        /\ handler' = "toggle_unique_colors_overlay"
                        /\ window' =
                             IF unique_sprite(cb).ret = "image"
                               THEN [window EXCEPT
                                       !.overlay_unique_colors_btn = TRUE,
                                       !.unique_colors_overlay_image = unique_sprite(cb).img,
                                       !.unique_colors_overlay_active = TRUE,
                                       !.overlay_item = set_overlay(unique_sprite(cb).img)]
                               ELSE [window EXCEPT !.overlay_unique_colors_btn = FALSE]
          ELSE /\ NoCall("toggle_unique_colors_overlay", <<>>)
               /\ window' = [window EXCEPT
                               !.overlay_unique_colors_btn = FALSE,
                               !.unique_colors_overlay_active = FALSE,
                               !.unique_colors_overlay_image = NoImage,
                               !.overlay_item = NoImage]

\* SpriteForgeWindow.toggle_transparent_sprite_overlay.
ToggleTransparentSpriteOverlay ==
  /\ op = "idle"
  /\ LET checked == ~window.overlay_transparent_sprite_btn
         events(files) == extract_events(image, window.selection, files)
         transparent_sprite(files, cb) ==
           Outcome(events(files), cb,
                   extract_transparent_sprite(image, window.selection, files))
     IN IF checked
          THEN IF window.selection = NoSelection
                 THEN /\ NoCall("toggle_transparent_sprite_overlay", <<>>)
                      /\ window' = [window EXCEPT !.overlay_transparent_sprite_btn = FALSE]
                 ELSE \E files \in Directories(image) :
                        IF Len(files) < 2
                          THEN /\ NoCall("toggle_transparent_sprite_overlay", files)
                               /\ window' = [window EXCEPT !.overlay_transparent_sprite_btn = FALSE]
                          ELSE \E cb \in HandlerCallbacks(events(files)) :
                                 /\ Call("extract_transparent_sprite", window.selection, cb,
                                         files, events(files),
                                         extract_transparent_sprite(image, window.selection, files),
                                         SectionsOf(image, window.selection, files))
                                 /\ handler' = "toggle_transparent_sprite_overlay"
                                 /\ window' =
                                      IF transparent_sprite(files, cb).ret = "image"
                                        THEN [window EXCEPT
                                                !.overlay_transparent_sprite_btn = TRUE,
                                                !.transparent_sprite_overlay_image =
                                                  transparent_sprite(files, cb).img,
                                                !.transparent_sprite_overlay_active = TRUE,
                                                !.overlay_item =
                                                  set_overlay(transparent_sprite(files, cb).img)]
                                        ELSE [window EXCEPT
                                                !.overlay_transparent_sprite_btn = FALSE]
          ELSE /\ NoCall("toggle_transparent_sprite_overlay", <<>>)
               /\ window' = [window EXCEPT
                               !.overlay_transparent_sprite_btn = FALSE,
                               !.transparent_sprite_overlay_active = FALSE,
                               !.transparent_sprite_overlay_image = NoImage,
                               !.overlay_item = NoImage]

\* SpriteForgeWindow.extract_unique_colors: the preview and the save that
\* follow a non-empty list write no field of the window.
ExtractUniqueColors ==
  /\ op = "idle"
  /\ IF window.selection = NoSelection
       THEN NoCall("extract_unique_colors", <<>>) /\ UNCHANGED window
       ELSE \E cb \in HandlerCallbacks(find_events(image, window.selection)) :
              /\ Call("find_unique_colors", window.selection, cb, <<>>,
                      find_events(image, window.selection),
                      find_unique_colors(image, window.selection), <<>>)
              /\ handler' = "extract_unique_colors"
              /\ UNCHANGED window

NextProgress ==
  \/ GetSelectionImageOfFrame
  \/ FindUniqueColorsReporting
  \/ CreateUniqueSpriteReporting
  \/ ExtractTransparentSprite
  \/ ToggleUniqueColorsOverlay
  \/ ToggleTransparentSpriteOverlay
  \/ ExtractUniqueColors
  \/ Return

SpecProgress == InitProgress /\ [][NextProgress]_vars

(***************************************************************************)
(* Vocabulary of the properties.                                           *)
(***************************************************************************)
\* The RGB color of the loaded image at position p.
ColorAt(p) == RGBOf(image.px[p])

InsidePositions == { p \in DOMAIN image.px : InRegion(p, selection) }
OutsidePositions == { p \in DOMAIN image.px : ~InRegion(p, selection) }

\* Colors that occur inside the selection and nowhere outside it.
TrulyUnique ==
  { ColorAt(p) : p \in InsidePositions } \ { ColorAt(p) : p \in OutsidePositions }

FoundColors == { result.colors[k] : k \in 1 .. Len(result.colors) }

FindReturned ==
  /\ op = "find_unique_colors"
  /\ result.ret = "list"
  /\ ValidRegion(image, selection)

(***************************************************************************)
(* Properties.                                                             *)
(***************************************************************************)
\* C1: soundness of find_unique_colors: for a valid region every returned
\* color occurs at some pixel inside the region and at no pixel of the
\* image outside it.
C1_Soundness ==
  FindReturned =>
    \A c \in FoundColors :
      /\ \E p \in InsidePositions : ColorAt(p) = c
      /\ \A p \in OutsidePositions : ColorAt(p) # c

\* C2: completeness of find_unique_colors: for a valid region every color
\* that occurs inside the region and at no pixel outside it is returned,
\* the blanking value (0,0,0) included.
C2_Completeness ==
  FindReturned => \A c \in TrulyUnique : c \in FoundColors

\* C3: sequence diff semantics: for N >= 2 crops the output pixel is opaque
\* with the color of the first crop iff the position's RGB is equal in all
\* crops, and otherwise fully transparent with RGB zeroed.
StableAt(p) == \A k \in 1 .. Len(sections) : sections[k].px[p] = sections[1].px[p]

DiffReturned ==
  /\ op = "extract_transparent_sprite"
  /\ Len(sections) >= 2

C3_DiffSemantics ==
  DiffReturned =>
    /\ result.ret = "image"
    /\ \A p \in DOMAIN sections[1].px :
         IF StableAt(p)
           THEN /\ AlphaAt(result.img, p) = 255
                /\ RGBOf(result.img.px[p]) = sections[1].px[p]
           ELSE /\ AlphaAt(result.img, p) = 0
                /\ RGBOf(result.img.px[p]) = <<0, 0, 0>>

\* C4: for a region that satisfies the Region invariant get_selection_image
\* returns a buffer of exactly width x height pixels whose pixel (i, j) is
\* the source pixel at (x + i, y + j).
C4_ExtractCopiesRegion ==
  (op = "get_selection_image" /\ ValidRegion(image, selection)) =>
    /\ result.ret = "image"
    /\ result.img.size = <<selection[3], selection[4]>>
    /\ DOMAIN result.img.px = Pos(selection[3], selection[4])
    /\ \A p \in Pos(selection[3], selection[4]) :
         result.img.px[p] = image.px[<<selection[1] + p[1], selection[2] + p[2]>>]

C4_Witness ==
  /\ op = "get_selection_image"
  /\ ValidRegion(image, selection)
  /\ selection = <<1, 1, 1, 1>>
  /\ image.mode = "RGBA"
  /\ result.ret = "image"
  /\ result.img.px[<<0, 0>>] # image.px[<<0, 0>>]

\* C5: a region that violates the Region invariant makes
\* get_selection_image fail with an error; no clamped or padded buffer is
\* returned.
C5_InvalidRegionRejected ==
  (/\ op = "get_selection_image"
   /\ image.mode # "None"
   /\ ~ValidRegion(image, selection)) =>
    result.ret = "raise"

\* C6: for the region that covers the entire image find_unique_colors
\* returns every distinct RGB color of the image exactly once.
CoversImage == selection = <<0, 0, Width(image), Height(image)>>

C6_WholeImage ==
  (FindReturned /\ CoversImage) =>
    /\ FoundColors = { ColorAt(p) : p \in DOMAIN image.px }
    /\ Cardinality(FoundColors) = Len(result.colors)

\* C7: for an image of one solid color and a valid region that leaves at
\* least one image pixel outside, find_unique_colors returns the empty
\* sequence.
SolidColor == \A p, q \in DOMAIN image.px : ColorAt(p) = ColorAt(q)

C7_SolidColorProperSubRegion ==
  (FindReturned /\ SolidColor /\ OutsidePositions # {}) =>
    result.colors = <<>>

\* C8: create_unique_sprite returns None iff find_unique_colors returns an
\* empty sequence for the same image and region, and a buffer it returns
\* is never all-transparent.
C8_NoneIffNothingUnique ==
  (op = "create_unique_sprite" /\ result.ret # "raise") =>
    /\ result.ret = "None" <=> find_unique_colors(image, selection).colors = <<>>
    /\ result.ret = "image" =>
         \E p \in DOMAIN result.img.px : result.img.px[p][4] # 0

C8_Witness ==
  /\ op = "create_unique_sprite"
  /\ image.mode # "None"
  /\ ValidRegion(image, selection)
  /\ result.ret = "None"
  /\ \E p \in InsidePositions : ColorAt(p) # <<0, 0, 0>>

\* C9: a buffer returned by create_unique_sprite has the region's size, and
\* its pixel is (r, g, b, 255) where the source pixel's RGB (alpha ignored)
\* is in the unique set and (0, 0, 0, 0) elsewhere.
C9_UniqueSpritePixels ==
  (/\ op = "create_unique_sprite"
   /\ result.ret = "image"
   /\ ValidRegion(image, selection)) =>
    /\ result.img.mode = "RGBA"
    /\ result.img.size = <<selection[3], selection[4]>>
    /\ DOMAIN result.img.px = Pos(selection[3], selection[4])
    /\ \A p \in Pos(selection[3], selection[4]) :
         LET c == ColorAt(<<selection[1] + p[1], selection[2] + p[2]>>)
         IN result.img.px[p] =
              IF InList(c, find_unique_colors(image, selection).colors)
                THEN <<c[1], c[2], c[3], 255>>
                ELSE <<0, 0, 0, 0>>

C9_Witness ==
  /\ op = "create_unique_sprite"
  /\ result.ret = "image"
  /\ ValidRegion(image, selection)
  /\ image.mode = "RGBA"
  /\ \E p, q \in DOMAIN result.img.px :
       /\ result.img.px[p] = <<0, 0, 0, 0>>
       /\ result.img.px[q][4] = 255
       /\ image.px[<<selection[1] + q[1], selection[2] + q[2]>>][4] # 255

\* C10: the sequence diff of N >= 2 pixel-for-pixel identical crops is
\* fully opaque everywhere and has the first crop's RGB at every position.
AllCropsIdentical == \A k \in 1 .. Len(sections) : sections[k] = sections[1]

C10_IdenticalCrops ==
  (DiffReturned /\ AllCropsIdentical) =>
    /\ result.ret = "image"
    /\ result.img.size = sections[1].size
    /\ \A p \in DOMAIN sections[1].px :
         /\ AlphaAt(result.img, p) = 255
         /\ RGBOf(result.img.px[p]) = sections[1].px[p]

C10_Witness ==
  /\ DiffReturned
  /\ AllCropsIdentical
  /\ Len(sections) = 3
  /\ result.ret = "image"
  /\ \E p, q \in DOMAIN sections[1].px :
       /\ sections[1].px[p] = <<255, 0, 0>>
       /\ sections[1].px[q] = <<0, 1, 0>>

\* C11: the sequence diff of crops that differ at exactly one position, by
\* any non-zero amount in any channel, is transparent at exactly that
\* position and opaque at every other position.
DifferingPositions == { p \in DOMAIN sections[1].px : ~StableAt(p) }

C11_OnePositionDiffers ==
  (DiffReturned /\ Cardinality(DifferingPositions) = 1) =>
    /\ result.ret = "image"
    /\ \A p \in DOMAIN sections[1].px :
         IF p \in DifferingPositions
           THEN AlphaAt(result.img, p) = 0
           ELSE AlphaAt(result.img, p) = 255

\* C12: in the sequence diff result, read as the 4-channel buffer the
\* caller displays, a position that is black in every crop and a position
\* that differs between crops have different pixels (opaque black against
\* alpha 0).
OutputPixel(p) ==
  <<result.img.px[p][1], result.img.px[p][2], result.img.px[p][3],
    AlphaAt(result.img, p)>>

C12_StableBlackDistinguishable ==
  (DiffReturned /\ result.ret = "image") =>
    \A p, q \in DOMAIN sections[1].px :
      (/\ StableAt(p)
       /\ sections[1].px[p] = <<0, 0, 0>>
       /\ ~StableAt(q)) => OutputPixel(p) # OutputPixel(q)

\* C13: a returned (not cancelled) extract_transparent_sprite gives "no
\* result" whenever fewer than two usable crops are available, also when
\* the directory holds two or more files of which at most one is readable;
\* it never returns a single crop as its result.
ReadableFiles == { k \in 1 .. Len(png_files) : png_files[k].readable }

ExtractReturned ==
  /\ op = "extract_transparent_sprite"
  /\ result.ret # "cancelled"

C13_NoResultBelowTwoCrops ==
  (ExtractReturned /\ Cardinality(ReadableFiles) < 2) => result.ret = "None"

\* C14: in a returned extract_transparent_sprite on a loaded image, a file
\* whose crop cannot be produced (unreadable, or of another size than the
\* first readable file) contributes no crop and every other file
\* contributes one: the crops collected are as many as the usable files.
FirstReadable == CHOOSE k \in ReadableFiles : \A j \in ReadableFiles : k <= j

UsableFiles ==
  { k \in ReadableFiles : png_files[k].img.size = png_files[FirstReadable].img.size }

C14_UnusableFilesSkipped ==
  (ExtractReturned /\ image.mode # "None" /\ Len(png_files) >= 2) =>
    Len(sections) = Cardinality(UsableFiles)

\* C15: within one call of find_unique_colors, create_unique_sprite or
\* extract_transparent_sprite the values passed to the progress callback
\* are non-decreasing and every value lies in [0, 100].
Reported == SelectSeq(trace, IsReport)

C15_ProgressMonotonic ==
  /\ \A k \in 1 .. Len(Reported) : Reported[k].val \in 0 .. 100
  /\ \A j, k \in 1 .. Len(Reported) : j < k => Reported[j].val <= Reported[k].val

\* A create_unique_sprite that has reported from inside its loop over the
\* rows, past the first row, and has returned its sprite.
C15_Witness ==
  /\ op = "create_unique_sprite"
  /\ result.ret = "image"
  /\ \E k \in 1 .. Len(Reported) : Reported[k].val > 20 /\ Reported[k].val < 100

\* C16: when the progress callback raises at a report, the operation makes
\* no further report and does no further work (the report is the last event
\* of the run), it returns no color list and no image, the caller gets the
\* cancelled outcome, and the handler of the window that made the call
\* leaves the overlay images, the overlay-active flags and the overlay on
\* the canvas as they were.
CancelSignalled ==
  /\ callback.given
  /\ callback.cancel_at >= 1
  /\ Len(Reported) >= callback.cancel_at

OverlayState(w) ==
  <<w.unique_colors_overlay_active, w.unique_colors_overlay_image,
    w.transparent_sprite_overlay_active, w.transparent_sprite_overlay_image,
    w.overlay_item>>

CancelStopsTheRun ==
  CancelSignalled =>
    /\ Len(Reported) = callback.cancel_at
    /\ IsReport(trace[Len(trace)])
    /\ result.ret = "cancelled"
    /\ result.img.mode = "None"
    /\ result.colors = <<>>

CancelLeavesOverlays ==
  (result.ret = "cancelled")' => (OverlayState(window)' = OverlayState(window))

C16_Cancellation == [](CancelStopsTheRun) /\ [][CancelLeavesOverlays]_vars

\* The overlay handler of the transparent sprite cancelled while it folds:
\* files have been opened and crops compared before the callback raised.
C16_Witness ==
  /\ handler = "toggle_transparent_sprite_overlay"
  /\ result.ret = "cancelled"
  /\ \E k \in 1 .. Len(trace) : trace[k].kind = "diff_image"

\* C17: the list find_unique_colors returns has no duplicate color and is
\* sorted in strictly descending lexicographic order on (R, then G, then B).
ColorGreater(a, b) ==
  \/ a[1] > b[1]
  \/ a[1] = b[1] /\ a[2] > b[2]
  \/ a[1] = b[1] /\ a[2] = b[2] /\ a[3] > b[3]

C17_StrictlyDescending ==
  (op = "find_unique_colors" /\ result.ret = "list") =>
    \A j, k \in 1 .. Len(result.colors) :
      j < k => ColorGreater(result.colors[j], result.colors[k])

\* find_unique_colors has returned more than one color.
C17_Witness ==
  /\ op = "find_unique_colors"
  /\ result.ret = "list"
  /\ Len(result.colors) >= 2

\* C19: no step of get_selection_image, find_unique_colors,
\* create_unique_sprite or extract_transparent_sprite, returning, giving no
\* result or cancelled, changes the loaded image (its mode, its size, any
\* pixel) or image_path.
LoadedImageKept ==
  /\ image'.mode = image.mode
  /\ image'.size = image.size
  /\ \A p \in DOMAIN image.px : image'.px[p] = image.px[p]
  /\ image_path' = image_path

C19_LoadedImageUnchanged == [][LoadedImageKept]_vars

\* find_unique_colors has returned on an image that its blanking rectangle
\* would have changed.
C19_Witness ==
  /\ op = "find_unique_colors"
  /\ result.ret = "list"
  /\ image.mode = "RGB"
  /\ \E p \in DOMAIN image.px : BlankedCopy(image, selection).px[p] # image.px[p]

\* C20: on the 4 x 4 image that is red except for a blue 2 x 2 block at
\* (1, 1), with the region (1, 1, 2, 2), find_unique_colors returns exactly
\* [(0, 0, 255)] and create_unique_sprite returns a 2 x 2 image whose four
\* pixels are all (0, 0, 255, 255).
ScenarioRegion == <<1, 1, 2, 2>>

InScenario ==
  /\ image.mode = "RGB"
  /\ image.size = <<4, 4>>
  /\ image = ScenarioImage
  /\ selection = ScenarioRegion

C20_Scenario ==
  InScenario =>
    /\ op = "find_unique_colors" =>
         /\ result.ret = "list"
         /\ result.colors = << <<0, 0, 255>> >>
    /\ op = "create_unique_sprite" =>
         /\ result.ret = "image"
         /\ result.img.mode = "RGBA"
         /\ result.img.size = <<2, 2>>
         /\ \A p \in Pos(2, 2) : result.img.px[p] = <<0, 0, 255, 255>>

\* create_unique_sprite has returned in the scenario.
C20_Witness ==
  /\ InScenario
  /\ op = "create_unique_sprite"
  /\ result.ret # "None"

\* C21: in a returned extract_transparent_sprite on a loaded image, the
\* crop contributed by a readable file is the region cropped from that
\* file's own pixels.
NthReadable(j) ==
  CHOOSE k \in ReadableFiles : Cardinality({ i \in ReadableFiles : i <= k }) = j

OwnCrop(k) == get_selection_image(png_files[k].img, selection)

C21_CropOfOwnFile ==
  (ExtractReturned /\ image.mode # "None" /\ Len(png_files) >= 2) =>
    \A j \in 1 .. Len(sections) :
      /\ j <= Cardinality(ReadableFiles)
      /\ OwnCrop(NthReadable(j)).ret = "image"
      /\ sections[j].size = OwnCrop(NthReadable(j)).img.size
      /\ \A p \in DOMAIN sections[j].px :
           sections[j].px[p] = RGBOf(OwnCrop(NthReadable(j)).img.px[p])

\* C22: the result of the sequence fold is the same for every order of the
\* crops after the first: every pixel (all are opaque in the RGB result)
\* has the same color whichever permutation of crops 2..N is folded.
Reordered(perm) ==
  [k \in 1 .. Len(sections) |-> IF k = 1 THEN sections[1] ELSE sections[perm[k]]]

LoadReports == Len(png_files) + 1

InLoadPhase(k) == k <= LoadReports

C23_ProgressPhases ==
  (op = "extract_transparent_sprite" /\ callback.given /\ Len(png_files) >= 2) =>
    /\ \A k \in 1 .. Len(Reported) :
         IF InLoadPhase(k) THEN Reported[k].val \in 0 .. 41
                           ELSE Reported[k].val \in 41 .. 100
    /\ \A j, k \in 1 .. Len(Reported) :
         (j < k /\ InLoadPhase(j) = InLoadPhase(k)) => Reported[j].val <= Reported[k].val

\* An extract_transparent_sprite that has loaded three files and has
\* reported from more than one comparison.
C23_Witness ==
  /\ op = "extract_transparent_sprite"
  /\ callback.given
  /\ result.ret = "image"
  /\ Len(png_files) >= 3
  /\ Len(Reported) >= LoadReports + 3

\* C24: a call of find_unique_colors, create_unique_sprite or
\* extract_transparent_sprite on a loaded image that is given a callback and
\* returns, with a result or with none, has reported 100 as its last
\* progress value.
ReturnedWithCallback ==
  /\ image.mode # "None"
  /\ op \in {"find_unique_colors", "create_unique_sprite", "extract_transparent_sprite"}
  /\ callback.given
  /\ result.ret \in {"list", "image", "None"}

C24_Reports100AtReturn ==
  ReturnedWithCallback =>
    /\ Reported # <<>>
    /\ Reported[Len(Reported)].val = 100

\* C30: the canvas shows an overlay item if and only if at least one of
\* unique_colors_overlay_active and transparent_sprite_overlay_active is
\* true.
C30_OverlayShownIffActive ==
  (window.overlay_item.mode # "None") <=>
    (window.unique_colors_overlay_active \/ window.transparent_sprite_overlay_active)

(***************************************************************************)
(* The selection of the main window (src/spriteforge/app.py): the canvas   *)
(* creates, moves and resizes it, the window keeps it and its history in   *)
(* an UndoRedoManager.  Scene coordinates and mouse deltas are floats; the *)
(* model counts them in halves of a pixel.                                 *)
(***************************************************************************)
\* UndoRedoManager keeps at most max_history selections on each stack (50 in
\* the source; the model scales it down).
MaxHistory == 2

\* int() of a float given in halves: truncation toward zero.
IntOfHalves(h) == IF h >= 0 THEN h \div 2 ELSE -((-h) \div 2)

Max(a, b) == IF a >= b THEN a ELSE b
Min(a, b) == IF a <= b THEN a ELSE b

\* deque(maxlen=max_history).append: a full deque drops its oldest entry.
DequeAppend(q, x) ==
  IF Len(q) >= MaxHistory THEN Tail(q) \o <<x>> ELSE Append(q, x)

\* deque.pop removes the last entry.
DequePop(q) == SubSeq(q, 1, Len(q) - 1)

\* A mutant of push: the redo stack is not cleared.
push_keeping_redo(um, sel) ==
  [undo_stack |-> DequeAppend(um.undo_stack, sel), redo_stack |-> um.redo_stack]

\* UndoRedoManager.push: the selection goes on the undo stack and the redo
\* stack is cleared.
push(um, sel) ==
  [undo_stack |-> DequeAppend(um.undo_stack, sel), redo_stack |-> <<>>]

can_undo(um) == Len(um.undo_stack) > 0

can_redo(um) == Len(um.redo_stack) > 0

\* A mutant of undo: the call returns the entry it has popped.
undo_returning_popped(um) ==
  IF um.undo_stack # <<>>
    THEN LET current == um.undo_stack[Len(um.undo_stack)]
             rest == DequePop(um.undo_stack)
         IN [um |-> [undo_stack |-> rest,
                     redo_stack |-> DequeAppend(um.redo_stack, current)],
             ret |-> current]
    ELSE [um |-> um, ret |-> <<>>]

\* UndoRedoManager.undo: the manager after the call and what the call
\* returns, <<>> for None.
undo(um) ==
  IF um.undo_stack # <<>>
    THEN LET current == um.undo_stack[Len(um.undo_stack)]
             rest == DequePop(um.undo_stack)
         IN [um |-> [undo_stack |-> rest,
                     redo_stack |-> DequeAppend(um.redo_stack, current)],
             ret |-> IF rest # <<>> THEN rest[Len(rest)] ELSE NoSelection]
    ELSE [um |-> um, ret |-> <<>>]

\* UndoRedoManager.redo.
redo(um) ==
  IF um.redo_stack # <<>>
    THEN LET sel == um.redo_stack[Len(um.redo_stack)]
         IN [um |-> [undo_stack |-> DequeAppend(um.undo_stack, sel),
                     redo_stack |-> DequePop(um.redo_stack)],
             ret |-> sel]
    ELSE [um |-> um, ret |-> <<>>]

\* ImageCanvas._view_rect_to_image_coords for the scene rectangle from tl to
\* br (in halves) on a pixmap at the origin: the selection, <<>> for None.
view_rect_to_image_coords(tl, br, img_w, img_h) ==
  LET img_x == IntOfHalves(Max(0, tl[1]))
      img_y == IntOfHalves(Max(0, tl[2]))
      img_x2 == IntOfHalves(Min(2 * img_w, br[1]))
      img_y2 == IntOfHalves(Min(2 * img_h, br[2]))
      width == img_x2 - img_x
      height == img_y2 - img_y
  IN IF width > 0 /\ height > 0 THEN <<img_x, img_y, width, height>> ELSE <<>>

\* ImageCanvas._move_selection by the scene delta d (in halves).
move_selection(sel, d, img_w, img_h) ==
  LET w == sel[3]
      h == sel[4]
      new_x == IntOfHalves(2 * sel[1] + d[1])
      new_y == IntOfHalves(2 * sel[2] + d[2])
  IN <<Max(0, Min(new_x, img_w - w)), Max(0, Min(new_y, img_h - h)), w, h>>

HandleNames ==
  {"top-left", "top", "top-right", "right", "bottom-right", "bottom",
   "bottom-left", "left"}

\* `"left" in self.active_handle`: the handle's name contains the side.
HandleHas(handle_name, side) ==
  CASE side = "left" -> handle_name \in {"top-left", "bottom-left", "left"}
    [] side = "right" -> handle_name \in {"top-right", "bottom-right", "right"}
    [] side = "top" -> handle_name \in {"top-left", "top", "top-right"}
    [] side = "bottom" -> handle_name \in {"bottom-left", "bottom", "bottom-right"}

\* A mutant of resize_selection: the clamp to the image bounds is left out.
resize_selection_unclamped(sel, active_handle, d, img_w, img_h) ==
  LET new_w == IntOfHalves(2 * sel[3] - d[1])
      new_h == IntOfHalves(2 * sel[4] - d[2])
      left == HandleHas(active_handle, "left") /\ new_w > 0
      top == HandleHas(active_handle, "top") /\ new_h > 0
      x1 == IF left THEN IntOfHalves(2 * sel[1] + d[1]) ELSE sel[1]
      w1 == IF left THEN new_w ELSE sel[3]
      w2 == IF HandleHas(active_handle, "right")
              THEN IntOfHalves(Max(2, 2 * w1 + d[1])) ELSE w1
      y1 == IF top THEN IntOfHalves(2 * sel[2] + d[2]) ELSE sel[2]
      h1 == IF top THEN new_h ELSE sel[4]
      h2 == IF HandleHas(active_handle, "bottom")
              THEN IntOfHalves(Max(2, 2 * h1 + d[2])) ELSE h1
  IN <<x1, y1, w2, h2>>

\* ImageCanvas._resize_selection by the scene delta d (in halves) of the
\* handle active_handle.
resize_selection(sel, active_handle, d, img_w, img_h) ==
  LET new_w == IntOfHalves(2 * sel[3] - d[1])
      new_h == IntOfHalves(2 * sel[4] - d[2])
      left == HandleHas(active_handle, "left") /\ new_w > 0
      top == HandleHas(active_handle, "top") /\ new_h > 0
      x1 == IF left THEN IntOfHalves(2 * sel[1] + d[1]) ELSE sel[1]
      w1 == IF left THEN new_w ELSE sel[3]
      w2 == IF HandleHas(active_handle, "right")
              THEN IntOfHalves(Max(2, 2 * w1 + d[1])) ELSE w1
      y1 == IF top THEN IntOfHalves(2 * sel[2] + d[2]) ELSE sel[2]
      h1 == IF top THEN new_h ELSE sel[4]
      h2 == IF HandleHas(active_handle, "bottom")
              THEN IntOfHalves(Max(2, 2 * h1 + d[2])) ELSE h1
      x == Max(0, Min(x1, img_w - 1))
      y == Max(0, Min(y1, img_h - 1))
  IN <<x, y, Max(1, Min(w2, img_w - x)), Max(1, Min(h2, img_h - y))>>

ArrowKeys == {"Left", "Right", "Up", "Down"}

Modifiers == SUBSET {"Shift", "Ctrl", "Alt"}

\* ImageCanvas._handle_arrow_keys for an arrow key: the new selection.
handle_arrow_keys(sel, key, modifiers, img_w, img_h) ==
  LET delta == IF "Shift" \in modifiers THEN 5 ELSE 1
      moved ==
        IF "Ctrl" \in modifiers
          THEN CASE key = "Left" -> <<sel[1], sel[2], Max(1, sel[3] - delta), sel[4]>>
                 [] key = "Right" -> <<sel[1], sel[2], sel[3] + delta, sel[4]>>
                 [] key = "Up" -> <<sel[1], sel[2], sel[3], Max(1, sel[4] - delta)>>
                 [] key = "Down" -> <<sel[1], sel[2], sel[3], sel[4] + delta>>
          ELSE IF "Alt" \in modifiers
            THEN CASE key = "Left" -> <<sel[1] - delta, sel[2], sel[3] + delta, sel[4]>>
                   [] key = "Right" ->
                        <<sel[1] + delta, sel[2], Max(1, sel[3] - delta), sel[4]>>
                   [] key = "Up" -> <<sel[1], sel[2] - delta, sel[3], sel[4] + delta>>
                   [] key = "Down" ->
                        <<sel[1], sel[2] + delta, sel[3], Max(1, sel[4] - delta)>>
            ELSE CASE key = "Left" -> <<sel[1] - delta, sel[2], sel[3], sel[4]>>
                   [] key = "Right" -> <<sel[1] + delta, sel[2], sel[3], sel[4]>>
                   [] key = "Up" -> <<sel[1], sel[2] - delta, sel[3], sel[4]>>
                   [] key = "Down" -> <<sel[1], sel[2] + delta, sel[3], sel[4]>>
      x == Max(0, Min(moved[1], img_w - moved[3]))
      y == Max(0, Min(moved[2], img_h - moved[4]))
  IN <<x, y, Max(1, Min(moved[3], img_w - x)), Max(1, Min(moved[4], img_h - y))>>

\* A mutant of on_selection_changed: the selection is kept and pushed, the
\* Undo and Redo buttons are left as they were.
on_selection_changed_without_buttons(w, sel) ==
  IF sel # <<>>
    THEN [w EXCEPT !.selection = sel,
                   !.undo_manager = IF ~w.canvas.is_applying_history
                                      THEN push(w.undo_manager, sel)
                                      ELSE w.undo_manager]
    ELSE [w EXCEPT !.selection = NoSelection]

\* SpriteForgeWindow.on_selection_changed, the slot of the canvas's
\* selectionChanged signal; sel is <<>> when the selection was cleared.
on_selection_changed(w, sel) ==
  IF sel # <<>>
    THEN LET um == IF ~w.canvas.is_applying_history
                     THEN push(w.undo_manager, sel)
                     ELSE w.undo_manager
         IN [w EXCEPT !.selection = sel,
                      !.undo_manager = um,
                      !.undo_btn = can_undo(um),
                      !.redo_btn = FALSE]
    ELSE [w EXCEPT !.selection = NoSelection]

\* ImageCanvas.clear_selection: emits selectionChanged with an empty tuple.
clear_selection(w) ==
  on_selection_changed([w EXCEPT !.canvas.current_selection = <<>>], <<>>)

\* ImageCanvas.apply_selection: sets the selection without emitting, or
\* clears it when it is empty.
apply_selection(w, sel) ==
  IF sel = <<>> \/ sel = NoSelection
    THEN clear_selection(w)
    ELSE [w EXCEPT !.canvas.current_selection = sel]

\* The part of on_undo and on_redo after the manager has returned sel.
apply_history(w, sel) ==
  LET applied ==
        IF sel # <<>>
          THEN [apply_selection([w EXCEPT !.canvas.is_applying_history = TRUE], sel)
                  EXCEPT !.canvas.is_applying_history = FALSE,
                         !.selection = sel]
          ELSE w
  IN [applied EXCEPT !.undo_btn = can_undo(applied.undo_manager),
                     !.redo_btn = can_redo(applied.undo_manager)]

\* SpriteForgeWindow.on_undo.
on_undo(w) ==
  LET r == undo(w.undo_manager)
  IN apply_history([w EXCEPT !.undo_manager = r.um], r.ret)

\* SpriteForgeWindow.on_redo.
on_redo(w) ==
  LET r == redo(w.undo_manager)
  IN apply_history([w EXCEPT !.undo_manager = r.um], r.ret)

\* The images the window loads: black frames of these sizes.
WindowSizes == {<<1, 1>>, <<2, 2>>}

WindowImages ==
  { MkImage("RGB", s[1], s[2], [p \in Pos(s[1], s[2]) |-> <<0, 0, 0>>]) :
      s \in WindowSizes }

\* Corners of the normalized rubber band in the scene, in halves: centres of
\* pixels and of the cells one step outside the pixmap, the top left corner
\* from the cell before the pixmap and the bottom right one up to the cell
\* after it.
TopLeftPoints(img) ==
  { <<2 * i + 1, 2 * j + 1>> : i \in -1 .. Width(img) - 1, j \in -1 .. Height(img) - 1 }

BottomRightPoints(img) ==
  { <<2 * i + 1, 2 * j + 1>> : i \in 0 .. Width(img), j \in 0 .. Height(img) }

\* Scene deltas of a drag, in halves.
DragDeltas == { <<dx, dy>> : dx \in {-3, 1, 2}, dy \in {-3, 1, 2} }

InitCanvas ==
  /\ image = NoImage
  /\ image_path = "frames/frame1.png"
  /\ op = "idle"
  /\ handler = "none"
  /\ selection = NoSelection
  /\ callback = NoCallback
  /\ png_files = <<>>
  /\ trace = <<>>
  /\ result = ReturnedNone
  /\ sections = <<>>
  /\ window = InitWindow(NoSelection)

\* A handler of the window or the canvas has run: `name` is the handler and
\* sel the selection it emitted or took from the history.
Handled(name, sel) ==
  /\ handler' = name
  /\ selection' = sel
  /\ UNCHANGED <<image_path, op, callback, png_files, trace, result, sections>>

\* SpriteForgeWindow.load_image: a new processor and a new pixmap; the
\* selection, the canvas's selection and the history are not touched.
LoadImage ==
  /\ op = "idle"
  /\ \E img \in WindowImages :
       /\ image' = img
       /\ window' = window
       /\ Handled("load_image", NoSelection)

\* Mouse release after dragging a new rectangle from tl to br.
FinalizeRectangleSelection ==
  /\ op = "idle"
  /\ image.mode # "None"
  /\ \E tl \in TopLeftPoints(image), br \in BottomRightPoints(image) :
       /\ tl[1] <= br[1]
       /\ tl[2] <= br[2]
       /\ LET sel == view_rect_to_image_coords(tl, br, Width(image), Height(image))
          IN /\ window' = IF sel # <<>>
                            THEN on_selection_changed(
                                   [window EXCEPT !.canvas.current_selection = sel], sel)
                            ELSE window
             /\ Handled("finalize_rectangle_selection", sel)
       /\ UNCHANGED image

\* The canvas emits its selection after a move, a resize or an arrow key.
Emit(name, sel) ==
  /\ window' = on_selection_changed([window EXCEPT !.canvas.current_selection = sel], sel)
  /\ Handled(name, sel)
  /\ UNCHANGED image

\* Press inside the selection, one mouse move, release.
MoveSelection ==
  /\ op = "idle"
  /\ image.mode # "None"
  /\ window.canvas.current_selection # <<>>
  /\ \E d \in DragDeltas :
       Emit("move_selection",
            move_selection(window.canvas.current_selection, d,
                           Width(image), Height(image)))

\* Press on a handle of the selection, one mouse move, release.
ResizeSelection ==
  /\ op = "idle"
  /\ image.mode # "None"
  /\ window.canvas.current_selection # <<>>
  /\ \E active_handle \in HandleNames, d \in DragDeltas :
       Emit("resize_selection",
            resize_selection(window.canvas.current_selection, active_handle, d,
                             Width(image), Height(image)))

\* keyPressEvent with an arrow key while the canvas has a selection.
HandleArrowKeys ==
  /\ op = "idle"
  /\ image.mode # "None"
  /\ window.canvas.current_selection # <<>>
  /\ \E key \in ArrowKeys, modifiers \in Modifiers :
       Emit("handle_arrow_keys",
            handle_arrow_keys(window.canvas.current_selection, key, modifiers,
                              Width(image), Height(image)))

\* SpriteForgeWindow.on_clear_selection.
OnClearSelection ==
  /\ op = "idle"
  /\ window' = clear_selection(window)
  /\ Handled("on_clear_selection", NoSelection)
  /\ UNCHANGED image

\* A click on the Undo button, which must be enabled.
OnUndo ==
  /\ op = "idle"
  /\ window.undo_btn
  /\ window' = on_undo(window)
  /\ Handled("on_undo", undo(window.undo_manager).ret)
  /\ UNCHANGED image

\* A click on the Redo button, which must be enabled.
OnRedo ==
  /\ op = "idle"
  /\ window.redo_btn
  /\ window' = on_redo(window)
  /\ Handled("on_redo", redo(window.undo_manager).ret)
  /\ UNCHANGED image

NextCanvas ==
  \/ LoadImage
  \/ FinalizeRectangleSelection
  \/ MoveSelection
  \/ ResizeSelection
  \/ HandleArrowKeys
  \/ OnClearSelection
  \/ OnUndo
  \/ OnRedo

SpecCanvas == InitCanvas /\ [][NextCanvas]_vars

(***************************************************************************)
(* Claims about the selection of the window and its history.               *)
(***************************************************************************)
ImageLoaded == image.mode # "None"

UndoStack == window.undo_manager.undo_stack

RedoStack == window.undo_manager.redo_stack

\* C25: after any sequence of load_image, selection changes through the
\* canvas, clear selection, undo and redo, a selection of the window other
\* than (0, 0, 0, 0) satisfies the Region invariant of the loaded image.
C25_SelectionInsideImage ==
  window.selection # NoSelection =>
    ImageLoaded /\ ValidRegion(image, window.selection)

CanvasEdits == {"move_selection", "resize_selection", "handle_arrow_keys"}

\* C26: on a loaded image, a single arrow key move or resize, mouse move or
\* handle resize of a canvas selection that satisfies the Region invariant
\* leaves a selection that satisfies it.
C26_CanvasEditsStayInside ==
  [][(/\ handler' \in CanvasEdits
      /\ ImageLoaded
      /\ ValidRegion(image, window.canvas.current_selection))
      => ValidRegion(image', window'.canvas.current_selection)]_vars

\* A handle resize has replaced a valid selection by a different one.
C26_Witness ==
  /\ handler = "resize_selection"
  /\ Len(UndoStack) = 2
  /\ ValidRegion(image, UndoStack[1])
  /\ UndoStack[2] # UndoStack[1]
  /\ window.canvas.current_selection = UndoStack[2]

\* C27: in every reachable state of the manager with a non-empty undo
\* stack, undo() followed by redo() returns the former top of the undo stack
\* and leaves both stacks as they were.
C27_UndoRedoRoundTrip ==
  UndoStack # <<>> =>
    LET undone == undo(window.undo_manager)
        redone == redo(undone.um)
    IN /\ redone.ret = UndoStack[Len(UndoStack)]
       /\ redone.um = window.undo_manager

\* Redo after undo on a full undo stack has brought the top entry back.
C27_Witness ==
  /\ handler = "on_redo"
  /\ Len(UndoStack) = MaxHistory
  /\ selection = UndoStack[Len(UndoStack)]

\* C28: a non-empty selection of the window is the top entry of the undo
\* stack, and undo returns (0, 0, 0, 0) only with the undo stack empty.
C28_SelectionIsTopOfUndo ==
  /\ window.selection # NoSelection =>
       UndoStack # <<>> /\ window.selection = UndoStack[Len(UndoStack)]
  /\ (handler = "on_undo" /\ selection = NoSelection) => UndoStack = <<>>

\* Undo has gone back to an earlier selection.
C28_Witness ==
  /\ handler = "on_undo"
  /\ window.selection # NoSelection
  /\ RedoStack # <<>>

ButtonsMatchStacks ==
  /\ window.undo_btn <=> UndoStack # <<>>
  /\ window.redo_btn <=> RedoStack # <<>>

HistoryNeverPushes ==
  /\ handler' = "on_undo" => window'.undo_manager = undo(window.undo_manager).um
  /\ handler' = "on_redo" => window'.undo_manager = redo(window.undo_manager).um

\* C29: after every handler the Undo button is enabled exactly when the undo
\* stack is non-empty and the Redo button exactly when the redo stack is
\* non-empty, and undo and redo leave the stacks as the manager returned
\* them: applying the selection pushes nothing.
C29_ButtonsFollowStacks ==
  [][ButtonsMatchStacks' /\ HistoryNeverPushes]_vars

\* After a redo both buttons are enabled.
C29_Witness ==
  /\ handler = "on_redo"
  /\ window.undo_btn
  /\ window.redo_btn

====
